---------------------------- MODULE Spec2Model ----------------------------
(***************************************************************************)
(* go-lox: scanner (scanner.go), recursive-descent parser with AstPrinter  *)
(* (parser source) and tree-walking interpreter (interpreter.go).          *)
(*                                                                         *)
(* A source text is a sequence of one-character strings.  Go indexes are   *)
(* 0-based; the cursors start/current keep Go's values and the model reads *)
(* source[i] as s.source[i + 1].                                           *)
(***************************************************************************)
EXTENDS Integers, Sequences, FiniteSets

VARIABLES
    source,    \* Scanner.source
    start,     \* Scanner.start
    current,   \* Scanner.current
    line,      \* Scanner.line
    tokens,    \* Scanner.tokens, then Parser.tokens
    errors,    \* Scanner.errors
    pcurrent,  \* Parser.current
    expr,      \* the tree returned by Parse, the argument of interpret
    perr,      \* the error returned by Parse
    result,    \* the string returned by interpret
    rerr,      \* the error returned by interpret
    panic,     \* a Go panic that escaped to the caller ("none" when there is none)
    pc         \* position of the driver: scan, parse, interp, done

vars == <<source, start, current, line, tokens, errors, pcurrent, expr, perr,
          result, rerr, panic, pc>>

-----------------------------------------------------------------------------
(* Bounds of the explored inputs *)

MaxPieces == 3
MaxChainOps == 3

-----------------------------------------------------------------------------
(* Characters *)

\* what peek and peekNext return at the end of the input
NUL == "NUL"

Digits == {"0", "1", "2", "3", "4", "5", "6", "7", "8", "9"}

Letters ==
    {"a", "b", "c", "d", "e", "f", "g", "h", "i", "j", "k", "l", "m",
     "n", "o", "p", "q", "r", "s", "t", "u", "v", "w", "x", "y", "z",
     "A", "B", "C", "D", "E", "F", "G", "H", "I", "J", "K", "L", "M",
     "N", "O", "P", "Q", "R", "S", "T", "U", "V", "W", "X", "Y", "Z"}

isDigit(c) == c \in Digits

isAlpha(c) == c \in Letters \/ c = "_"

isAlphaNumeric(c) == isAlpha(c) \/ isDigit(c)

DigitVal(c) ==
    CASE c = "0" -> 0 [] c = "1" -> 1 [] c = "2" -> 2 [] c = "3" -> 3
      [] c = "4" -> 4 [] c = "5" -> 5 [] c = "6" -> 6 [] c = "7" -> 7
      [] c = "8" -> 8 [] c = "9" -> 9

DigitChar(n) ==
    CASE n = 0 -> "0" [] n = 1 -> "1" [] n = 2 -> "2" [] n = 3 -> "3"
      [] n = 4 -> "4" [] n = 5 -> "5" [] n = 6 -> "6" [] n = 7 -> "7"
      [] n = 8 -> "8" [] n = 9 -> "9"

-----------------------------------------------------------------------------
(* Runtime values: Go's interface{} holding nil, bool, string or float64.  *)
(* A float64 is kept as sign, magnitude n/d in lowest terms; d = 0 stands  *)
(* for the IEEE specials: n = 1 an infinity, n = 0 NaN.  Rounding is not   *)
(* modelled: every value is the exact result.                              *)

NilVal == [k |-> "nil"]

BoolVal(b) == [k |-> "bool", b |-> b]

StrVal(s) == [k |-> "str", s |-> s]

RECURSIVE Gcd(_, _)
Gcd(a, b) == IF b = 0 THEN a ELSE Gcd(b, a % b)

Float(neg, n, d) ==
    IF d = 0 THEN [k |-> "num", neg |-> (n # 0 /\ neg), n |-> n, d |-> 0]
    ELSE LET g == Gcd(n, d) IN [k |-> "num", neg |-> neg, n |-> n \div g, d |-> d \div g]

NaN == Float(FALSE, 0, 0)

Inf(neg) == Float(neg, 1, 0)

IsNaN(v) == v.d = 0 /\ v.n = 0

IsInf(v) == v.d = 0 /\ v.n = 1

IsZero(v) == v.d # 0 /\ v.n = 0

RECURSIVE Pow10(_)
Pow10(k) == IF k = 0 THEN 1 ELSE 10 * Pow10(k - 1)

RECURSIVE DigitsValue(_)
\* the integer written by a sequence of digits
DigitsValue(ds) ==
    IF ds = <<>> THEN 0
    ELSE 10 * DigitsValue(SubSeq(ds, 1, Len(ds) - 1)) + DigitVal(ds[Len(ds)])

\* strconv.ParseFloat on a lexeme of number(): digits, or digits "." digits
ParseFloat(lex) ==
    LET dots == {i \in 1..Len(lex) : lex[i] = "."}
    IN  IF dots = {} THEN Float(FALSE, DigitsValue(lex), 1)
        ELSE LET p == CHOOSE i \in dots : TRUE
                 ds == SubSeq(lex, 1, p - 1) \o SubSeq(lex, p + 1, Len(lex))
             IN  Float(FALSE, DigitsValue(ds), Pow10(Len(lex) - p))


-----------------------------------------------------------------------------
(* Tokens (scanner.go) *)

NewToken(typ, lexeme, literal, ln) ==
    [type |-> typ, lexeme |-> lexeme, literal |-> literal, line |-> ln]

\* the keywords table
KeywordType(lex) ==
    CASE lex = <<"a", "n", "d">> -> "AND"
      [] lex = <<"c", "l", "a", "s", "s">> -> "CLASS"
      [] lex = <<"e", "l", "s", "e">> -> "ELSE"
      [] lex = <<"f", "a", "l", "s", "e">> -> "FALSE"
      [] lex = <<"f", "u", "n">> -> "FUN"
      [] lex = <<"f", "o", "r">> -> "FOR"
      [] lex = <<"i", "f">> -> "IF"
      [] lex = <<"n", "i", "l">> -> "NIL"
      [] lex = <<"o", "r">> -> "OR"
      [] lex = <<"p", "r", "i", "n", "t">> -> "PRINT"
      [] lex = <<"r", "e", "t", "u", "r", "n">> -> "RETURN"
      [] lex = <<"s", "u", "p", "e", "r">> -> "SUPER"
      [] lex = <<"t", "h", "i", "s">> -> "THIS"
      [] lex = <<"t", "r", "u", "e">> -> "TRUE"
      [] lex = <<"v", "a", "r">> -> "VAR"
      [] lex = <<"w", "h", "i", "l", "e">> -> "WHILE"
      [] OTHER -> "IDENTIFIER"

-----------------------------------------------------------------------------
(* Scanner (scanner.go).  A scanner is the record of the struct's fields   *)
(* plus oob, set when an index or a slice bound is out of range: Go panics *)
(* there, and every caller returns at once while the panic unwinds.        *)

\* NewScanner: every field but source has Go's zero value
NewScanner(src) ==
    [source |-> src, start |-> 0, current |-> 0, line |-> 0,
     tokens |-> <<>>, errors |-> <<>>, oob |-> FALSE]

\* Scanner.error: fmt.Errorf("Line: %d, %s", s.line, message)
ScanError(s, message) ==
    [s EXCEPT !.errors = Append(@, [line |-> s.line, message |-> message])]

isAtEnd(s) == s.current >= Len(s.source)

advance(s) ==
    IF s.current >= 0 /\ s.current < Len(s.source)
    THEN [s EXCEPT !.current = @ + 1]
    ELSE [s EXCEPT !.oob = TRUE]

peek(s) == IF isAtEnd(s) THEN NUL ELSE s.source[s.current + 1]

peekNext(s) ==
    IF s.current + 1 >= Len(s.source) THEN NUL ELSE s.source[s.current + 2]

\* Scanner.match: whether the next character is expected; it is consumed if so
matches(s, expected) == ~isAtEnd(s) /\ s.source[s.current + 1] = expected

\* s.source[lo:hi]
SliceOk(s, lo, hi) == 0 <= lo /\ lo <= hi /\ hi <= Len(s.source)

Slice(s, lo, hi) == SubSeq(s.source, lo + 1, hi)

addTokenLiteral(s, typ, literal) ==
    IF ~SliceOk(s, s.start, s.current) THEN [s EXCEPT !.oob = TRUE]
    ELSE [s EXCEPT !.tokens =
            Append(@, NewToken(typ, Slice(s, s.start, s.current), literal, s.line))]

addToken(s, typ) == addTokenLiteral(s, typ, NilVal)

\* one or two character lexemes: c followed by "=" or c alone
oneOrTwo(s, second, two, one) ==
    IF matches(s, second) THEN addToken(advance(s), two) ELSE addToken(s, one)

\* faulty variant of commentCond: the end of the input is not tested
commentCond_noEndTest(s) == peek(s) # "\n"

\* the condition of the comment loop
commentCond(s) == peek(s) # "\n" /\ ~isAtEnd(s)

RECURSIVE commentLoop(_)
commentLoop(s) ==
    IF s.oob THEN s
    ELSE IF commentCond(s) THEN commentLoop(advance(s)) ELSE s

RECURSIVE identifierLoop(_)
identifierLoop(s) ==
    IF s.oob THEN s
    ELSE IF isAlphaNumeric(peek(s)) THEN identifierLoop(advance(s)) ELSE s

identifier(s) ==
    LET s1 == identifierLoop(s)
    IN  IF s1.oob \/ ~SliceOk(s1, s1.start, s1.current) THEN [s1 EXCEPT !.oob = TRUE]
        ELSE addToken(s1, KeywordType(Slice(s1, s1.start, s1.current)))

\* the condition of the loop of string()
stringCond(s) == peek(s) # "\"" /\ ~isAtEnd(s)

RECURSIVE stringLoop(_)
stringLoop(s) ==
    IF s.oob THEN s
    ELSE IF stringCond(s)
         THEN stringLoop(advance(IF peek(s) = "\n" THEN [s EXCEPT !.line = @ + 1] ELSE s))
         ELSE s

\* faulty variant of stringClose: no return after the error is recorded
stringClose_noReturn(s) ==
    LET s0 == IF isAtEnd(s) THEN ScanError(s, "Unterminated string.") ELSE s
        s1 == advance(s0)
    IN  IF s1.oob \/ ~SliceOk(s1, s1.start + 1, s1.current - 1)
        THEN [s1 EXCEPT !.oob = TRUE]
        ELSE addTokenLiteral(s1, "STRING",
                             StrVal(Slice(s1, s1.start + 1, s1.current - 1)))

\* what string() does once its loop has stopped
stringClose(s) ==
    IF isAtEnd(s) THEN ScanError(s, "Unterminated string.")
    ELSE LET s1 == advance(s)    \* the closing quote
         IN  IF s1.oob \/ ~SliceOk(s1, s1.start + 1, s1.current - 1)
             THEN [s1 EXCEPT !.oob = TRUE]
             ELSE addTokenLiteral(s1, "STRING",
                                  StrVal(Slice(s1, s1.start + 1, s1.current - 1)))

scanString(s) ==
    LET s1 == stringLoop(s) IN IF s1.oob THEN s1 ELSE stringClose(s1)

RECURSIVE digitLoop(_)
digitLoop(s) ==
    IF s.oob THEN s
    ELSE IF isDigit(peek(s)) THEN digitLoop(advance(s)) ELSE s

number(s) ==
    LET s1 == digitLoop(s)
        s2 == IF ~s1.oob /\ peek(s1) = "." /\ isDigit(peekNext(s1))
              THEN digitLoop(advance(s1))
              ELSE s1
    IN  IF s2.oob \/ ~SliceOk(s2, s2.start, s2.current) THEN [s2 EXCEPT !.oob = TRUE]
        ELSE addTokenLiteral(s2, "NUMBER", ParseFloat(Slice(s2, s2.start, s2.current)))

scanToken(s) ==
    LET c  == IF s.current >= 0 /\ s.current < Len(s.source)
              THEN s.source[s.current + 1] ELSE NUL
        s1 == advance(s)
    IN  IF s1.oob THEN s1
        ELSE CASE c = "(" -> addToken(s1, "LEFT_PAREN")
               [] c = ")" -> addToken(s1, "RIGHT_PAREN")
               [] c = "{" -> addToken(s1, "LEFT_BRACE")
               [] c = "}" -> addToken(s1, "RIGHT_BRACE")
               [] c = "," -> addToken(s1, "COMMA")
               [] c = "." -> addToken(s1, "DOT")
               [] c = "-" -> addToken(s1, "MINUS")
               [] c = "+" -> addToken(s1, "PLUS")
               [] c = ";" -> addToken(s1, "SEMICOLON")
               [] c = "*" -> addToken(s1, "STAR")
               [] c = "!" -> oneOrTwo(s1, "=", "BANG_EQUAL", "BANG")
               [] c = "=" -> oneOrTwo(s1, "=", "EQUAL_EQUAL", "EQUAL")
               [] c = "<" -> oneOrTwo(s1, "=", "LESS_EQUAL", "LESS")
               [] c = ">" -> oneOrTwo(s1, "=", "GREATER_EQUAL", "GREATER")
               [] c = "/" -> IF matches(s1, "/") THEN commentLoop(advance(s1))
                             ELSE addToken(s1, "SLASH")
               [] c \in {" ", "\t", "\r"} -> s1
               [] c = "\n" -> [s1 EXCEPT !.line = @ + 1]
               [] c = "\"" -> scanString(s1)
               [] OTHER -> IF isDigit(c) THEN number(s1)
                           ELSE IF isAlpha(c) THEN identifier(s1)
                           ELSE ScanError(s1, "Unexpected character.")

\* one iteration of the loop of ScanTokens
scanStep(s) == scanToken([s EXCEPT !.start = s.current])

\* faulty variant of withEOF: a scan that found no token returns none
withEOF_skipEmpty(toks, ln) ==
    IF toks = <<>> THEN toks ELSE Append(toks, NewToken("EOF", <<>>, NilVal, ln))

\* the tokens ScanTokens returns once the loop has ended
withEOF(toks, ln) == Append(toks, NewToken("EOF", <<>>, NilVal, ln))

RECURSIVE scanLoop(_)
scanLoop(s) == IF s.oob \/ isAtEnd(s) THEN s ELSE scanLoop(scanStep(s))

\* ScanTokens run to its end on a fresh scanner
ScanTokens(src) ==
    LET s == scanLoop(NewScanner(src)) IN withEOF(s.tokens, s.line)


-----------------------------------------------------------------------------
(* float64 arithmetic, as Go's operators compute it on the values above *)

\* the numerator with its sign, of a finite value
Sn(v) == IF v.neg THEN 0 - v.n ELSE v.n

FNeg(v) == Float(~v.neg, v.n, v.d)

FAdd(a, b) ==
    IF IsNaN(a) \/ IsNaN(b) THEN NaN
    ELSE IF IsInf(a) THEN (IF IsInf(b) /\ a.neg # b.neg THEN NaN ELSE a)
    ELSE IF IsInf(b) THEN b
    ELSE IF a.neg = b.neg THEN Float(a.neg, a.n * b.d + b.n * a.d, a.d * b.d)
    ELSE LET x == a.n * b.d
             y == b.n * a.d
         IN  IF x = y THEN Float(FALSE, 0, 1)
             ELSE IF x > y THEN Float(a.neg, x - y, a.d * b.d)
             ELSE Float(b.neg, y - x, a.d * b.d)

FSub(a, b) == FAdd(a, FNeg(b))

FMul(a, b) ==
    IF IsNaN(a) \/ IsNaN(b) THEN NaN
    ELSE IF (IsInf(a) /\ IsZero(b)) \/ (IsZero(a) /\ IsInf(b)) THEN NaN
    ELSE IF IsInf(a) \/ IsInf(b) THEN Inf(a.neg # b.neg)
    ELSE Float(a.neg # b.neg, a.n * b.n, a.d * b.d)

FDiv(a, b) ==
    IF IsNaN(a) \/ IsNaN(b) THEN NaN
    ELSE IF (IsInf(a) /\ IsInf(b)) \/ (IsZero(a) /\ IsZero(b)) THEN NaN
    ELSE IF IsInf(a) \/ IsZero(b) THEN Inf(a.neg # b.neg)
    ELSE IF IsInf(b) THEN Float(a.neg # b.neg, 0, 1)
    ELSE Float(a.neg # b.neg, a.n * b.d, a.d * b.n)

FLess(a, b) ==
    IF IsNaN(a) \/ IsNaN(b) THEN FALSE
    ELSE IF IsInf(a) THEN a.neg /\ ~(IsInf(b) /\ b.neg)
    ELSE IF IsInf(b) THEN ~b.neg
    ELSE Sn(a) * b.d < Sn(b) * a.d

FEq(a, b) == ~IsNaN(a) /\ ~IsNaN(b) /\ ~FLess(a, b) /\ ~FLess(b, a)

-----------------------------------------------------------------------------
(* fmt's %v of a runtime value, as a sequence of characters *)

\* digits kept after the decimal point of a value that is no integer
MaxFracDigits == 17

RECURSIVE NatDigits(_)
NatDigits(n) ==
    IF n < 10 THEN <<DigitChar(n)>> ELSE Append(NatDigits(n \div 10), DigitChar(n % 10))

RECURSIVE FracDigits(_, _, _)
\* the decimal expansion of r/d (r < d) by long division, at most k digits
FracDigits(r, d, k) ==
    IF r = 0 \/ k = 0 THEN <<>>
    ELSE <<DigitChar((10 * r) \div d)>> \o FracDigits((10 * r) % d, d, k - 1)

\* %v of a float64: the shortest decimal that reads back as the value.  It is
\* exact here for every value whose expansion ends within MaxFracDigits
\* digits; a longer expansion is cut there, and the exponent form Go uses
\* below 1e-4 and from 1e21 on is not modelled.
FormatFloat(v) ==
    IF IsNaN(v) THEN <<"N", "a", "N">>
    ELSE IF IsInf(v) THEN (IF v.neg THEN <<"-">> ELSE <<"+">>) \o <<"I", "n", "f">>
    ELSE (IF v.neg THEN <<"-">> ELSE <<>>)
         \o NatDigits(v.n \div v.d)
         \o (IF v.n % v.d = 0 THEN <<>>
             ELSE <<".">> \o FracDigits(v.n % v.d, v.d, MaxFracDigits))

Sprint(v) ==
    CASE v.k = "nil" -> <<"<", "n", "i", "l", ">">>
      [] v.k = "bool" -> IF v.b THEN <<"t", "r", "u", "e">> ELSE <<"f", "a", "l", "s", "e">>
      [] v.k = "str" -> v.s
      [] v.k = "num" -> FormatFloat(v)

-----------------------------------------------------------------------------
(* Expression trees *)

\* the nil Expr
NoExpr == [node |-> "nil"]

Binary(op, left, right) ==
    [node |-> "Binary", op |-> op, left |-> left, right |-> right]

Unary(op, right) == [node |-> "Unary", op |-> op, right |-> right]

Literal(value) == [node |-> "Literal", value |-> value]

Grouping(e) == [node |-> "Grouping", expr |-> e]

-----------------------------------------------------------------------------
(* Parser.  Every parsing method takes the tokens and Parser.current and   *)
(* returns st ("ok", "ParseError" for panic(ParseError), "runtime" for a   *)
(* Go run-time panic such as an index out of range), the expression, the   *)
(* new value of Parser.current and the error.                              *)

NoError == [message |-> "none"]

POk(e, cur) == [st |-> "ok", expr |-> e, cur |-> cur, err |-> NoError]

PRuntime(cur) == [st |-> "runtime", expr |-> NoExpr, cur |-> cur, err |-> NoError]

\* whether p.tokens[i] is in range
TokOk(toks, i) == i >= 0 /\ i < Len(toks)

\* Parser.error: "<lexeme> <type> <line> at '<message>'"
ParseError(token, message) == [token |-> token, message |-> message]

\* panic(p.error(p.peek(), message))
pPanic(toks, cur, message) ==
    IF ~TokOk(toks, cur) THEN PRuntime(cur)
    ELSE [st |-> "ParseError", expr |-> NoExpr, cur |-> cur,
          err |-> ParseError(toks[cur + 1], message)]

\* Parser.advance: current moves on unless the parser is at EOF, and the
\* token before it is returned
pAdvance(toks, cur) ==
    IF ~TokOk(toks, cur) THEN [st |-> "runtime", cur |-> cur]
    ELSE LET c1 == IF toks[cur + 1].type = "EOF" THEN cur ELSE cur + 1
         IN  IF TokOk(toks, c1 - 1) THEN [st |-> "ok", cur |-> c1]
             ELSE [st |-> "runtime", cur |-> c1]

\* Parser.checkTokenType over the types given to match or consume
pCheck(toks, cur, types) ==
    toks[cur + 1].type # "EOF" /\ toks[cur + 1].type \in types

\* Parser.match: hit tells whether a token of one of the types was consumed
pMatch(toks, cur, types) ==
    IF ~TokOk(toks, cur) THEN [st |-> "runtime", hit |-> FALSE, cur |-> cur]
    ELSE IF pCheck(toks, cur, types)
         THEN LET a == pAdvance(toks, cur) IN [st |-> a.st, hit |-> TRUE, cur |-> a.cur]
         ELSE [st |-> "ok", hit |-> FALSE, cur |-> cur]

\* Parser.previous after a match that hit
pPrevious(toks, cur) == toks[cur]

\* faulty variant of consume: a missing token is passed over in silence
consume_noPanic(toks, cur, type, message) ==
    IF ~TokOk(toks, cur) THEN PRuntime(cur)
    ELSE IF pCheck(toks, cur, {type})
         THEN LET a == pAdvance(toks, cur)
              IN  IF a.st = "ok" THEN POk(NoExpr, a.cur) ELSE PRuntime(a.cur)
         ELSE POk(NoExpr, cur)

\* Parser.consume
consume(toks, cur, type, message) ==
    IF ~TokOk(toks, cur) THEN PRuntime(cur)
    ELSE IF pCheck(toks, cur, {type})
         THEN LET a == pAdvance(toks, cur)
              IN  IF a.st = "ok" THEN POk(NoExpr, a.cur) ELSE PRuntime(a.cur)
         ELSE pPanic(toks, cur, message)

EqualityTypes == {"EQUAL_EQUAL", "BANG_EQUAL"}

ComparisonTypes == {"GREATER", "GREATER_EQUAL", "LESS", "LESS_EQUAL"}

TermTypes == {"PLUS", "MINUS", "OR"}

\* faulty variant of FactorTypes: "+" taken at the level of "*"
FactorTypes_withPlus == {"STAR", "SLASH", "AND", "PLUS"}

FactorTypes == {"STAR", "SLASH", "AND"}

UnaryTypes == {"MINUS", "BANG"}

\* Binary{Operator: op, Left: left, Right: right}, once the method called
\* for the right operand has returned r (a panic of it passes through)
binaryOf(op, left, r) ==
    IF r.st # "ok" THEN r ELSE POk(Binary(op, left.expr, r.expr), r.cur)

\* Unary{Operator: op, Right: right}, likewise
unaryOf(op, r) ==
    IF r.st # "ok" THEN r ELSE POk(Unary(op, r.expr), r.cur)

\* the "(" branch of primary once expression has returned e: consume, then
\* Grouping{Expr: expr}
groupingOf(toks, e) ==
    IF e.st # "ok" THEN e
    ELSE LET c == consume(toks, e.cur, "RIGHT_PAREN", "Expect ')' after expression.")
         IN  IF c.st # "ok" THEN c ELSE POk(Grouping(e.expr), c.cur)

RECURSIVE expression(_, _), equality(_, _), equalityLoop(_, _), equalityBody(_, _, _),
          comparison(_, _), comparisonLoop(_, _), comparisonBody(_, _, _),
          term(_, _), termLoop(_, _), termBody(_, _, _),
          factor(_, _), factorLoop(_, _), factorBody(_, _, _),
          unary(_, _), unaryBody(_, _, _), primary(_, _), primaryBody(_, _, _, _)

expression(toks, cur) == equality(toks, cur)

\* the condition of the for loop of equality: p.match on its operators
equalityLoop(toks, left) ==
    equalityBody(toks, left, pMatch(toks, left.cur, EqualityTypes))

\* the body of that loop after the match m, then the loop again; the loop
\* ends, returning what has been parsed, when nothing matched
equalityBody(toks, left, m) ==
    IF left.st # "ok" THEN left
    ELSE IF m.st # "ok" THEN PRuntime(m.cur)
    ELSE IF ~m.hit THEN left
    ELSE equalityLoop(toks, binaryOf(pPrevious(toks, m.cur), left,
                    comparison(toks, m.cur)))

equality(toks, cur) == equalityLoop(toks, comparison(toks, cur))

\* the condition of the for loop of comparison: p.match on its operators
comparisonLoop(toks, left) ==
    comparisonBody(toks, left, pMatch(toks, left.cur, ComparisonTypes))

\* the body of that loop after the match m, then the loop again; the loop
\* ends, returning what has been parsed, when nothing matched
comparisonBody(toks, left, m) ==
    IF left.st # "ok" THEN left
    ELSE IF m.st # "ok" THEN PRuntime(m.cur)
    ELSE IF ~m.hit THEN left
    ELSE comparisonLoop(toks, binaryOf(pPrevious(toks, m.cur), left,
                    term(toks, m.cur)))

comparison(toks, cur) == comparisonLoop(toks, term(toks, cur))

\* the condition of the for loop of term: p.match on its operators
termLoop(toks, left) ==
    termBody(toks, left, pMatch(toks, left.cur, TermTypes))

\* the body of that loop after the match m, then the loop again; the loop
\* ends, returning what has been parsed, when nothing matched
termBody(toks, left, m) ==
    IF left.st # "ok" THEN left
    ELSE IF m.st # "ok" THEN PRuntime(m.cur)
    ELSE IF ~m.hit THEN left
    ELSE termLoop(toks, binaryOf(pPrevious(toks, m.cur), left,
                    factor(toks, m.cur)))

term(toks, cur) == termLoop(toks, factor(toks, cur))

\* the condition of the for loop of factor: p.match on its operators
factorLoop(toks, left) ==
    factorBody(toks, left, pMatch(toks, left.cur, FactorTypes))

\* the body of that loop after the match m, then the loop again; the loop
\* ends, returning what has been parsed, when nothing matched
factorBody(toks, left, m) ==
    IF left.st # "ok" THEN left
    ELSE IF m.st # "ok" THEN PRuntime(m.cur)
    ELSE IF ~m.hit THEN left
    ELSE factorLoop(toks, binaryOf(pPrevious(toks, m.cur), left,
                    unary(toks, m.cur)))

factor(toks, cur) == factorLoop(toks, unary(toks, cur))

\* unary after its p.match(MINUS, BANG) returned m
unaryBody(toks, cur, m) ==
    IF m.st # "ok" THEN PRuntime(m.cur)
    ELSE IF ~m.hit THEN primary(toks, cur)
    ELSE unaryOf(pPrevious(toks, m.cur), unary(toks, m.cur))

unary(toks, cur) == unaryBody(toks, cur, pMatch(toks, cur, UnaryTypes))

\* the value of the Literal primary builds for a token it matched
literalOf(tok) ==
    CASE tok.type \in {"NUMBER", "STRING"} -> tok.literal
      [] tok.type = "TRUE" -> BoolVal(TRUE)
      [] tok.type = "FALSE" -> BoolVal(FALSE)
      [] tok.type = "NIL" -> StrVal(<<"n", "u", "l", "l">>)

\* primary, m being what its matches of the literal tokens return and g its
\* match of LEFT_PAREN
primaryBody(toks, cur, m, g) ==
    IF m.st # "ok" THEN PRuntime(m.cur)
    ELSE IF m.hit THEN POk(Literal(literalOf(pPrevious(toks, m.cur))), m.cur)
    ELSE IF g.st # "ok" THEN PRuntime(g.cur)
    ELSE IF ~g.hit THEN pPanic(toks, cur, "Expect expression")
    ELSE groupingOf(toks, expression(toks, g.cur))

primary(toks, cur) ==
    primaryBody(toks, cur,
                pMatch(toks, cur, {"NUMBER", "STRING", "TRUE", "FALSE", "NIL"}),
                pMatch(toks, cur, {"LEFT_PAREN"}))

\* what Parse returns when expression ended as r: the deferred function turns
\* a panic into the returned error by err1.(ParseError), which itself panics
\* when the panic is no ParseError
parseReturn(r) ==
    CASE r.st = "ok" ->
           [expr |-> r.expr, err |-> NoError, panic |-> "none", cur |-> r.cur]
      [] r.st = "ParseError" ->
           [expr |-> NoExpr, err |-> r.err, panic |-> "none", cur |-> r.cur]
      [] r.st = "runtime" ->
           [expr |-> NoExpr, err |-> NoError,
            panic |-> "interface conversion: not a ParseError", cur |-> r.cur]

\* NewParser(toks).Parse()
Parse(toks) == parseReturn(expression(toks, 0))

-----------------------------------------------------------------------------
(* AstPrinter *)

RECURSIVE AstPrint(_)

\* AstPrinter.parenthesize
parenthesize(name, exprs) ==
    LET RECURSIVE parts(_)
        parts(i) == IF i > Len(exprs) THEN <<>>
                    ELSE <<" ">> \o AstPrint(exprs[i]) \o parts(i + 1)
    IN  <<"(">> \o name \o parts(1) \o <<")">>

\* AstPrinter's Print: the visit method of the node's kind
AstPrint(e) ==
    CASE e.node = "Binary" -> parenthesize(e.op.lexeme, <<e.left, e.right>>)
      [] e.node = "Grouping" -> parenthesize(<<"g", "r", "o", "u", "p">>, <<e.expr>>)
      [] e.node = "Literal" ->
            IF e.value.k = "nil" THEN <<"n", "i", "l">> ELSE Sprint(e.value)
      [] e.node = "Unary" -> parenthesize(e.op.lexeme, <<e.right>>)

-----------------------------------------------------------------------------
(* Interpreter (interpreter.go).  evaluate returns a runtime value, or a   *)
(* record of kind "panic": the RuntimeError the visit panicked with, which *)
(* every enclosing visit lets through.                                     *)

RuntimeError(message, token) == [message |-> message, token |-> token]

\* panic(RuntimeError{...})
Panic(err) == [k |-> "panic", rt |-> FALSE, err |-> err]

\* a Go run-time panic: expr.accept on a nil Expr
NilDereference == [k |-> "panic", rt |-> TRUE, err |-> [message |-> "none"]]

IsPanic(v) == v.k = "panic"

isTruthy(obj) ==
    IF obj.k = "nil" THEN FALSE
    ELSE IF obj.k = "bool" THEN obj.b
    ELSE TRUE

\* reflect.DeepEqual behind the nil tests of isEqual
isEqual(a, b) ==
    IF a.k = "nil" /\ b.k = "nil" THEN TRUE
    ELSE IF a.k = "nil" THEN FALSE
    ELSE IF a.k # b.k THEN FALSE
    ELSE IF a.k = "num" THEN FEq(a, b)
    ELSE a = b

\* faulty variant of plus: a number and a string are joined as texts
plus_coercing(op, left, right) ==
    IF left.k = "num" /\ right.k = "num" THEN FAdd(left, right)
    ELSE IF left.k \in {"num", "str"} /\ right.k \in {"num", "str"}
         THEN StrVal(Sprint(left) \o Sprint(right))
    ELSE Panic(RuntimeError("Operands must be two numbers or two strings", op))

\* the PLUS case of visitBinaryExpr
plus(op, left, right) ==
    IF left.k = "num" /\ right.k = "num" THEN FAdd(left, right)
    ELSE IF left.k = "str" /\ right.k = "str" THEN StrVal(left.s \o right.s)
    ELSE Panic(RuntimeError("Operands must be two numbers or two strings", op))

\* checkNumberOperands, then the arithmetic or the comparison of the case
numeric(op, left, right) ==
    IF ~(left.k = "num" /\ right.k = "num")
    THEN Panic(RuntimeError("Operands must be numbers", op))
    ELSE CASE op.type = "MINUS" -> FSub(left, right)
           [] op.type = "SLASH" -> FDiv(left, right)
           [] op.type = "STAR" -> FMul(left, right)
           [] op.type = "GREATER" -> BoolVal(FLess(right, left))
           [] op.type = "GREATER_EQUAL" -> BoolVal(FLess(right, left) \/ FEq(left, right))
           [] op.type = "LESS" -> BoolVal(FLess(left, right))
           [] op.type = "LESS_EQUAL" -> BoolVal(FLess(left, right) \/ FEq(left, right))

\* the switch of visitBinaryExpr on the two evaluated operands
binarySwitch(op, left, right) ==
    CASE op.type \in {"MINUS", "SLASH", "STAR", "GREATER", "GREATER_EQUAL",
                      "LESS", "LESS_EQUAL"} -> numeric(op, left, right)
      [] op.type = "PLUS" -> plus(op, left, right)
      [] op.type = "EQUAL_EQUAL" -> BoolVal(isEqual(left, right))
      [] op.type = "BANG_EQUAL" -> BoolVal(~isEqual(left, right))
      [] op.type = "OR" -> BoolVal(isTruthy(left) \/ isTruthy(right))
      [] op.type = "AND" -> BoolVal(isTruthy(left) /\ isTruthy(right))
      [] OTHER -> NilVal

\* faulty variant of visitBinaryExpr: "or" and "and" stop at the left operand
\* when it decides the result
visitBinaryExpr_shortCircuit(op, left, right) ==
    IF IsPanic(left) THEN left
    ELSE IF op.type = "OR" /\ isTruthy(left) THEN BoolVal(TRUE)
    ELSE IF op.type = "AND" /\ ~isTruthy(left) THEN BoolVal(FALSE)
    ELSE IF IsPanic(right) THEN right
    ELSE binarySwitch(op, left, right)

\* visitBinaryExpr, given what evaluate returned for the left and for the
\* right operand: left is evaluated first, and a panic of it ends the visit
\* before right is evaluated
visitBinaryExpr(op, left, right) ==
    IF IsPanic(left) THEN left
    ELSE IF IsPanic(right) THEN right
    ELSE binarySwitch(op, left, right)

\* visitUnaryExpr, given what evaluate returned for the operand
visitUnaryExpr(op, operand) ==
    IF IsPanic(operand) THEN operand
    ELSE CASE op.type = "MINUS" ->
                IF operand.k # "num" THEN Panic(RuntimeError("Operand must be number", op))
                ELSE FNeg(operand)
           [] op.type = "BANG" -> BoolVal(~isTruthy(operand))
           [] OTHER -> NilVal

RECURSIVE evaluate(_)
evaluate(e) ==
    CASE e.node = "Literal" -> e.value
      [] e.node = "Grouping" -> evaluate(e.expr)
      [] e.node = "Unary" -> visitUnaryExpr(e.op, evaluate(e.right))
      [] e.node = "Binary" -> visitBinaryExpr(e.op, evaluate(e.left), evaluate(e.right))
      [] e.node = "nil" -> NilDereference

\* what interpret returns when evaluate ended as v: fmt.Sprint of the value,
\* or "" and the recovered RuntimeError; the deferred function's
\* err1.(RuntimeError) itself panics when the panic is no RuntimeError
interpretReturn(v) ==
    IF ~IsPanic(v) THEN [result |-> Sprint(v), err |-> NoError, panic |-> "none"]
    ELSE IF v.rt THEN [result |-> <<>>, err |-> NoError,
                       panic |-> "interface conversion: not a RuntimeError"]
    ELSE [result |-> <<>>, err |-> v.err, panic |-> "none"]

\* Interpreter.interpret
interpret(e) == interpretReturn(evaluate(e))

-----------------------------------------------------------------------------
(* Inputs *)

RECURSIVE Flatten(_)
\* the concatenation of a sequence of texts
Flatten(ps) == IF ps = <<>> THEN <<>> ELSE Head(ps) \o Flatten(Tail(ps))

\* the pieces source texts are assembled from
Pieces ==
    {<<"0">>, <<"1">>, <<".">>, <<"\"">>, <<"\n">>, <<"/">>, <<"=">>, <<"!">>,
     <<"#">>, <<" ">>, <<"a">>, <<"+">>, <<"-">>, <<"*">>, <<"<">>, <<"(">>, <<")">>,
     <<"n", "i", "l">>, <<"o", "r">>, <<"a", "n", "d">>, <<"t", "r", "u", "e">>}

PieceTexts ==
    {Flatten(ps) : ps \in UNION {[1..n -> Pieces] : n \in 0..MaxPieces}}

\* the lexemes of the binary operators
OperatorLexemes ==
    {<<"=", "=">>, <<"!", "=">>, <<"<">>, <<"<", "=">>, <<">">>, <<">", "=">>,
     <<"+">>, <<"-">>, <<"o", "r">>, <<"*">>, <<"/">>, <<"a", "n", "d">>}

\* "1 op 2 op 3 ...": number literals joined by the operators ops
ChainText(ops) ==
    <<"1">> \o Flatten([i \in 1..Len(ops) |->
                          <<" ">> \o ops[i] \o <<" ", DigitChar(i + 1)>>])

ChainTexts ==
    {ChainText(ops) : ops \in UNION {[1..n -> OperatorLexemes] : n \in 1..MaxChainOps}}

\* the source texts of the documented examples
Ex_1p2m3 == <<"1", " ", "+", " ", "2", " ", "*", " ", "3">>
Ex_1p2p3 == <<"1", " ", "+", " ", "2", " ", "+", " ", "3">>
Ex_open == <<"(", "1", " ", "+", " ", "2">>
Ex_notnil == <<"!", "n", "i", "l">>
Ex_not0 == <<"!", "0">>
Ex_1_2 == <<"1", " ", "2">>
Ex_1_rp == <<"1", " ", ")">>
Ex_or == <<"t", "r", "u", "e", " ", "o", "r", " ", "-", "\"", "a", "\"">>
Ex_and == <<"f", "a", "l", "s", "e", " ", "a", "n", "d", " ", "-", "\"", "a", "\"">>
Ex_1p2 == <<"1", " ", "+", " ", "2">>
Ex_apb == <<"\"", "a", "\"", " ", "+", " ", "\"", "b", "\"">>
Ex_1pb == <<"1", " ", "+", " ", "\"", "b", "\"">>
Ex_group == <<"(", "2", " ", "+", " ", "3", ")", " ", "*", " ", "4">>
Ex_abc == <<"\"", "a", "b", "c">>
Ex_lines == <<"1", "\n", "\"", "a", "\n", "b", "\"", "\n", "2">>

Examples ==
    {Ex_1p2m3, Ex_1p2p3, Ex_open, Ex_notnil, Ex_not0, Ex_1_2, Ex_1_rp, Ex_or,
     Ex_and, Ex_1p2, Ex_apb, Ex_1pb, Ex_group, Ex_abc, Ex_lines}

Sources == PieceTexts \cup ChainTexts \cup Examples

-----------------------------------------------------------------------------
(* The pipeline: a text is scanned, its tokens are parsed, the tree is     *)
(* interpreted.                                                            *)

\* the scanner held in the variables
Scanner ==
    [source |-> source, start |-> start, current |-> current, line |-> line,
     tokens |-> tokens, errors |-> errors, oob |-> FALSE]

Init ==
    /\ source \in Sources
    /\ start = NewScanner(source).start
    /\ current = NewScanner(source).current
    /\ line = NewScanner(source).line
    /\ tokens = NewScanner(source).tokens
    /\ errors = NewScanner(source).errors
    /\ pcurrent = 0
    /\ expr = NoExpr
    /\ perr = NoError
    /\ result = <<>>
    /\ rerr = NoError
    /\ panic = "none"
    /\ pc = "scan"

\* one iteration of the loop of ScanTokens
ScanTokenStep ==
    /\ pc = "scan"
    /\ ~isAtEnd(Scanner)
    /\ LET s == scanStep(Scanner)
       IN  IF s.oob
           THEN /\ panic' = "index out of range"
                /\ pc' = "done"
                /\ UNCHANGED <<start, current, line, tokens, errors>>
           ELSE /\ start' = s.start
                /\ current' = s.current
                /\ line' = s.line
                /\ tokens' = s.tokens
                /\ errors' = s.errors
                /\ UNCHANGED <<panic, pc>>
    /\ UNCHANGED <<source, pcurrent, expr, perr, result, rerr>>

\* the end of ScanTokens: the loop has ended, EOF is appended
ScanTokensReturn ==
    /\ pc = "scan"
    /\ isAtEnd(Scanner)
    /\ tokens' = withEOF(tokens, line)
    /\ pc' = "parse"
    /\ UNCHANGED <<source, start, current, line, errors, pcurrent, expr, perr,
                   result, rerr, panic>>

\* the driver's move after Parse returned r
afterParse(r) == IF r.panic = "none" /\ r.err.message = "none" THEN "interp" ELSE "done"

\* NewParser(tokens).Parse(), its results stored as r
parseStored(r) ==
    /\ expr' = r.expr
    /\ perr' = r.err
    /\ pcurrent' = r.cur
    /\ panic' = r.panic
    /\ pc' = afterParse(r)

ParseCall ==
    /\ pc = "parse"
    /\ parseStored(Parse(tokens))
    /\ UNCHANGED <<source, start, current, line, tokens, errors, result, rerr>>

\* Interpreter{}.interpret(expr), its results stored as r
interpretStored(r) ==
    /\ result' = r.result
    /\ rerr' = r.err
    /\ panic' = r.panic

InterpretCall ==
    /\ pc = "interp"
    /\ interpretStored(interpret(expr))
    /\ pc' = "done"
    /\ UNCHANGED <<source, start, current, line, tokens, errors, pcurrent, expr, perr>>

Next == ScanTokenStep \/ ScanTokensReturn \/ ParseCall \/ InterpretCall

Spec == Init /\ [][Next]_vars


-----------------------------------------------------------------------------
(* The interpreter on trees handed to it directly: interpret takes any     *)
(* Expr, also one no source text parses to (a Literal holding nil).        *)

\* the lexeme of an operator token type
OpLexeme(type) ==
    CASE type = "EQUAL_EQUAL" -> <<"=", "=">>
      [] type = "BANG_EQUAL" -> <<"!", "=">>
      [] type = "LESS" -> <<"<">>
      [] type = "LESS_EQUAL" -> <<"<", "=">>
      [] type = "GREATER" -> <<">">>
      [] type = "GREATER_EQUAL" -> <<">", "=">>
      [] type = "PLUS" -> <<"+">>
      [] type = "MINUS" -> <<"-">>
      [] type = "OR" -> <<"o", "r">>
      [] type = "STAR" -> <<"*">>
      [] type = "SLASH" -> <<"/">>
      [] type = "AND" -> <<"a", "n", "d">>
      [] type = "BANG" -> <<"!">>

\* the token of an operator on line ln
OpToken(type, ln) == NewToken(type, OpLexeme(type), NilVal, ln)

BinaryTypes == EqualityTypes \cup ComparisonTypes \cup TermTypes \cup FactorTypes

SampleValues ==
    {NilVal, BoolVal(TRUE), BoolVal(FALSE), Float(FALSE, 0, 1), Float(FALSE, 1, 1),
     Float(FALSE, 3, 2), StrVal(<<>>), StrVal(<<"a">>)}

\* operands: a literal, or a unary operator (on line ln) applied to one
Operands(ln) ==
    {Literal(v) : v \in SampleValues}
      \cup {Unary(OpToken(u, ln), Literal(v)) : u \in UnaryTypes, v \in SampleValues}
      \cup {Grouping(Literal(v)) : v \in SampleValues}

DirectExprs ==
    Operands(0)
      \cup {Binary(OpToken(b, 0), l, r) : b \in BinaryTypes, l \in Operands(0), r \in Operands(1)}

InitInterp ==
    /\ source = <<>>
    /\ start = 0
    /\ current = 0
    /\ line = 0
    /\ tokens = <<>>
    /\ errors = <<>>
    /\ pcurrent = 0
    /\ expr \in DirectExprs
    /\ perr = NoError
    /\ result = <<>>
    /\ rerr = NoError
    /\ panic = "none"
    /\ pc = "interp"

NextInterp == InterpretCall

SpecInterp == InitInterp /\ [][NextInterp]_vars


-----------------------------------------------------------------------------
(* Properties *)

Last(seq) == seq[Len(seq)]

\* ScanTokens has returned
Scanned == pc \in {"parse", "interp", "done"} /\ panic # "index out of range"

\* Parse has returned or panicked
Parsed == pc \in {"interp", "done"} /\ panic # "index out of range"

\* C1: for every source text, also the empty one and those with lexical
\* errors, ScanTokens returns, and the tokens it returns end with an EOF
\* token and hold no other EOF token.
C1_EndsWithOneEOF ==
    pc # "scan" =>
        /\ panic # "index out of range"
        /\ tokens # <<>>
        /\ Last(tokens).type = "EOF"
        /\ \A i \in 1..(Len(tokens) - 1) : tokens[i].type # "EOF"

\* a text with a lexical error has been scanned, tokens and EOF returned
C1_Witness == pc = "parse" /\ errors # <<>> /\ Len(tokens) >= 2

\* the number of newline characters among the first n characters of the source
Newlines(n) == Cardinality({i \in 1..n : source[i] = "\n"})

\* C2: every token carries a 1-based line: the line of a token is 1 plus the
\* number of newline characters consumed before the token is emitted, EOF
\* included.
C2_LineOneBased ==
    [][\A i \in (Len(tokens) + 1)..Len(tokens') :
          tokens'[i].line = 1 + Newlines(current')]_vars

\* C3: on tokens that end with EOF, Parse returns either a tree and no
\* error, or no tree and a ParseError raised at the token the parser stopped
\* at; no panic escapes; the unmatched "(" of "(1 + 2" is such an error.
C3_TreeOrError ==
    Parsed =>
        /\ panic = "none"
        /\ \/ expr.node # "nil" /\ perr.message = "none"
           \/ /\ expr.node = "nil"
              /\ perr.message \in {"Expect expression", "Expect ')' after expression."}
              /\ perr.token = tokens[pcurrent + 1]
        /\ source = Ex_open =>
              /\ expr.node = "nil"
              /\ perr.message = "Expect ')' after expression."

\* "(1 + 2" has been parsed and the error returned
C3_Witness == Parsed /\ source = Ex_open /\ perr.message # "none"

\* C4: when Parse returns a tree, the parser's cursor rests on the EOF token:
\* nothing is left over after the expression.
C4_ConsumesAll ==
    (Parsed /\ panic = "none" /\ perr.message = "none") =>
        tokens[pcurrent + 1].type = "EOF"

LiteralTypes == {"NUMBER", "STRING", "TRUE", "FALSE", "NIL"}

\* tokens that are literals joined by binary operators, then EOF
IsChain(toks) ==
    /\ Len(toks) % 2 = 0
    /\ Last(toks).type = "EOF"
    /\ \A i \in 1..(Len(toks) - 1) :
          IF i % 2 = 1 THEN toks[i].type \in LiteralTypes
          ELSE toks[i].type \in BinaryTypes

\* the level of a binary operator in the stated ladder, loosest first
Level(type) ==
    CASE type \in {"EQUAL_EQUAL", "BANG_EQUAL"} -> 1
      [] type \in {"LESS", "LESS_EQUAL", "GREATER", "GREATER_EQUAL"} -> 2
      [] type \in {"PLUS", "MINUS", "OR"} -> 3
      [] type \in {"STAR", "SLASH", "AND"} -> 4

RECURSIVE LadderTree(_)
\* the tree the ladder gives a chain: it splits at the last operator of the
\* loosest level present, so that each level folds to the left
LadderTree(ts) ==
    IF Len(ts) = 1 THEN Literal(literalOf(ts[1]))
    ELSE LET ops   == {i \in 1..Len(ts) : i % 2 = 0}
             loose == {i \in ops : \A j \in ops : Level(ts[i].type) <= Level(ts[j].type)}
             split == CHOOSE i \in loose : \A j \in loose : j <= i
         IN  Binary(ts[split], LadderTree(SubSeq(ts, 1, split - 1)),
                    LadderTree(SubSeq(ts, split + 1, Len(ts))))

Printed_1p2m3 == <<"(", "+", " ", "1", " ", "(", "*", " ", "2", " ", "3", ")", ")">>

Printed_1p2p3 == <<"(", "+", " ", "(", "+", " ", "1", " ", "2", ")", " ", "3", ")">>

\* C5: the tree Parse builds for literals joined by binary operators is the
\* tree of the ladder equality < comparison < term < factor, each level
\* folding to the left; "1 + 2 * 3" prints as "(+ 1 (* 2 3))" and
\* "1 + 2 + 3" as "(+ (+ 1 2) 3)".
C5_Ladder ==
    (Parsed /\ IsChain(tokens)) =>
        /\ perr.message = "none"
        /\ expr = LadderTree(SubSeq(tokens, 1, Len(tokens) - 1))
        /\ source = Ex_1p2m3 => AstPrint(expr) = Printed_1p2m3
        /\ source = Ex_1p2p3 => AstPrint(expr) = Printed_1p2p3

\* "1 + 2 * 3" has been parsed into the tree that prints as "(+ 1 (* 2 3))"
C5_Witness ==
    /\ Parsed
    /\ source = Ex_1p2m3
    /\ expr.node = "Binary"
    /\ AstPrint(expr) = Printed_1p2m3

\* C6: the pipeline yields true for "!nil" and false for "!0".
C6_NotNilNotZero ==
    pc = "done" =>
        /\ source = Ex_notnil => result = <<"t", "r", "u", "e">> /\ rerr.message = "none"
        /\ source = Ex_not0 => result = <<"f", "a", "l", "s", "e">> /\ rerr.message = "none"

\* interpret has returned for a Binary node with an operator among types
\* whose operands both evaluate to values
BinaryDone(types) ==
    /\ pc = "done"
    /\ expr.node = "Binary"
    /\ expr.op.type \in types

\* C7: "+" on two numbers yields their sum, on two strings their
\* concatenation; on every other pair of values interpret returns a
\* RuntimeError and the empty result.
C7_PlusOperands ==
    BinaryDone({"PLUS"}) =>
        LET l == evaluate(expr.left)
            r == evaluate(expr.right)
        IN  (~IsPanic(l) /\ ~IsPanic(r)) =>
                /\ panic = "none"
                /\ IF l.k = "num" /\ r.k = "num"
                   THEN rerr.message = "none" /\ result = FormatFloat(FAdd(l, r))
                   ELSE IF l.k = "str" /\ r.k = "str"
                   THEN rerr.message = "none" /\ result = l.s \o r.s
                   ELSE /\ rerr = RuntimeError("Operands must be two numbers or two strings",
                                               expr.op)
                        /\ result = <<>>

\* a number plus a string has been interpreted: an error, no result
C7_Witness ==
    /\ BinaryDone({"PLUS"})
    /\ expr.left = Literal(Float(FALSE, 1, 1))
    /\ expr.right = Literal(StrVal(<<"a">>))
    /\ rerr.message # "none"
    /\ result = <<>>

\* the number of "Unterminated string." errors recorded
Unterminated(errs) ==
    Cardinality({i \in 1..Len(errs) : errs[i].message = "Unterminated string."})

\* the scan is about to read an opening quote that no later quote closes
OpensUnclosed ==
    /\ pc = "scan"
    /\ current < Len(source)
    /\ source[current + 1] = "\""
    /\ \A j \in (current + 2)..Len(source) : source[j] # "\""

\* C8: an opening quote with no closing quote after it adds no token, keeps
\* the tokens scanned before it, records "Unterminated string." (the only
\* such error of the scan) and consumes the rest of the input; the tokens
\* returned still end with EOF.
C8_UnterminatedString ==
    /\ [][OpensUnclosed =>
            /\ tokens' = tokens
            /\ errors' = Append(errors, [line |-> line', message |-> "Unterminated string."])
            /\ Unterminated(errors') = 1
            /\ current' = Len(source)
            /\ pc' = "scan"
            /\ panic' = "none"]_vars
    /\ [](Scanned /\ Unterminated(errors) > 0 =>
            /\ Unterminated(errors) = 1
            /\ Last(tokens).type = "EOF"
            /\ Last(errors).message = "Unterminated string.")

\* a text with a token and then an unclosed quote has been scanned
C8_Witness ==
    /\ pc = "parse"
    /\ Unterminated(errors) = 1
    /\ Len(tokens) >= 2
    /\ \A i \in 1..Len(tokens) : tokens[i].type # "STRING"

\* C9: "or" and "and" evaluate the left operand, then the right one, then
\* combine: an error of the left operand is the one returned, else an error
\* of the right operand is returned even when the left operand decides the
\* result, else the result is the OR / AND of the two truthiness values.
C9_EagerLogical ==
    BinaryDone({"OR", "AND"}) =>
        LET l == evaluate(expr.left)
            r == evaluate(expr.right)
        IN  /\ panic = "none"
            /\ IF IsPanic(l) THEN rerr = l.err /\ result = <<>>
               ELSE IF IsPanic(r) THEN rerr = r.err /\ result = <<>>
               ELSE /\ rerr.message = "none"
                    /\ result = Sprint(BoolVal(IF expr.op.type = "OR"
                                               THEN isTruthy(l) \/ isTruthy(r)
                                               ELSE isTruthy(l) /\ isTruthy(r)))

\* the tree of true or -"a" has been interpreted: the error of -"a"
C9_Witness ==
    /\ BinaryDone({"OR"})
    /\ expr.left = Literal(BoolVal(TRUE))
    /\ expr.right = Unary(OpToken("MINUS", 1), Literal(StrVal(<<"a">>)))
    /\ rerr = RuntimeError("Operand must be number", OpToken("MINUS", 1))
    /\ result = <<>>

\* C10: while ScanTokens runs, 0 <= start <= current <= len(source) holds, no
\* read of the source is out of range, and every iteration of the loop
\* starts at current and moves current at least one character on, so that
\* the loop ends within len(source) iterations.
C10_ScanBounds ==
    /\ [](/\ 0 <= start
          /\ start <= current
          /\ current <= Len(source)
          /\ panic # "index out of range")
    /\ [][(pc = "scan" /\ pc' = "scan") => (start' = current /\ current' > current)]_vars

\* a scan has ended after an iteration that consumed several characters
C10_Witness ==
    /\ pc = "parse"
    /\ current = Len(source)
    /\ start + 2 <= current

=============================================================================
